---------------------------- MODULE Spec2Model ----------------------------
(***************************************************************************)
(* The view transform of maptalks.js (Map camera mixin): the camera        *)
(* parameters fov / pitch / bearing, the four matrices derived from them,  *)
(* and the setters that recompute the matrices, re-render the layers and   *)
(* fire the change events.                                                 *)
(*                                                                         *)
(* Numbers.  A JavaScript number is modelled exactly as m * 10^-4 *        *)
(* RADIAN^e (RADIAN = PI / 180), a record [def, m, e]; `undefined` is the  *)
(* record with def = FALSE.  Multiplying or dividing by RADIAN moves e, so *)
(* a value in degrees and the same value in radians are different numbers, *)
(* as they are in the program.  Zero is kept with e = 0 (0 * RADIAN = 0;   *)
(* -0 === 0 in JavaScript).  Floating point rounding is not modelled.      *)
(*                                                                         *)
(* Matrices.  A derived matrix is modelled by its kind and the values it   *)
(* was computed from; an absent (deleted / never assigned) field is        *)
(* Absent.  The scalar cameraToCenterDistance, which no operation here     *)
(* reads back, and the map centre, which the setters leave alone, are left *)
(* out of the matrices' inputs.                                            *)
(***************************************************************************)
EXTENDS Integers, Sequences, FiniteSets, TLC

\* how many overlay layers the map holds besides the base layer
NumOverlays == 2

---------------------------------------------------------------------------
\* Numbers

Num(m, e) == [def |-> TRUE, m |-> m, e |-> IF m = 0 THEN 0 ELSE e]

undefined == [def |-> FALSE, m |-> 0, e |-> 0]

\* an integer number of public units (degrees), e.g. setPitch(30)
Degrees(d) == Num(d * 10000, 0)

Zero == Num(0, 0)

\* JavaScript's !x for a number or undefined
Falsy(x) == ~x.def \/ x.m = 0

\* const RADIAN = Math.PI / 180; x * RADIAN and x / RADIAN
RADIAN == Num(10000, 1)

MulRadian(x) == Num(x.m, x.e + 1)

DivRadian(x) == Num(x.m, x.e - 1)

Neg(x) == Num(-x.m, x.e)

\* const DEFAULT_FOV = 0.6435011087932844, to four decimals
DEFAULT_FOV == Num(6435, 0)

\* JavaScript's a % b: the sign of the result is the sign of a
JsMod(a, b) == IF a >= 0 THEN a % b ELSE -((-a) % b)

Min(a, b) == IF a <= b THEN a ELSE b

Max(a, b) == IF a >= b THEN a ELSE b

\* core/util clamp(n, min, max) on plain numbers (e = 0); min, max in degrees
clamp(n, min, max) == Num(Max(min * 10000, Min(max * 10000, n.m)), 0)

\* core/util wrap(n, min, max) on plain numbers (e = 0); min, max in degrees
wrap(n, min, max) ==
    IF n.m = max * 10000 \/ n.m = min * 10000 THEN n
    ELSE LET d == (max - min) * 10000
             lo == min * 10000
         IN  Num(JsMod(JsMod(n.m - lo, d) + d, d) + lo, 0)

\* Math.max(0.01, Math.min(60, fov))
ClampFov(fov) == Num(Max(100, Min(600000, fov.m)), 0)

---------------------------------------------------------------------------
\* Matrices

Absent == [kind |-> "absent"]

\* a matrix of the given kind computed from the fields of t
Matrix(kind, t) ==
    [kind |-> kind, fov |-> t._fov, pitch |-> t._pitch, angle |-> t._angle,
     width |-> t.width, height |-> t.height]

\* mat4.invert(out, a): null (Absent) when a is singular.  The pixel matrix
\* of a viewport of no width is singular (aspect ratio 0).
invert(a) == IF a.width = 0 THEN Absent ELSE [a EXCEPT !.kind = "pixelMatrixInverse"]

---------------------------------------------------------------------------
\* State

VARIABLES
    map,        \* the Map object's camera fields (`this` in the mixin)
    ie9,        \* Browser.ie9
    zooming,    \* what this.isZooming() returns
    baseLayer,  \* this.getBaseLayer(): a layer id, or NoLayer
    layers,     \* this._getLayers(): the overlay layers in registration order
    renderers,  \* the layers whose _getRenderer() is not null
    last,       \* the most recent call and what its consumers observed
    calcHeight, \* this.height at the most recent _calcMatrices call
    vectorLayer, \* a VectorLayer: its style and the geometries added to it
    layerLast,  \* the most recent VectorLayer call and the events it fired
    view,       \* the Map object's projected centre (_prjCenter) and zoom
    probe       \* the most recent point-mapping call: arguments and result

vars == <<map, ie9, zooming, baseLayer, layers, renderers, last, calcHeight,
          vectorLayer, layerLast, view, probe>>

\* the variables of the point mappings
pointVars == <<view, probe>>

\* the variables of the VectorLayer
layerVars == <<vectorLayer, layerLast>>

NoLayer == "none"

BaseId == "base"

OverlayId(i) == ToString(i)

\* viewport sizes <<width, height>> (pixels) a container can have: a laid out
\* one, a hidden one (0 also stands for unset) and one of no width
Viewports == {<<800, 600>>, <<0, 0>>, <<0, 600>>}

\* arguments the setters are called with
FovInputs == {Degrees(0), DEFAULT_FOV, Degrees(90)}

PitchInputs == {Degrees(-10), Degrees(30), Degrees(90)}

BearingInputs == {Degrees(0), Degrees(270)}

Setters == {"setFov", "setBearing", "setPitch"}

---------------------------------------------------------------------------
\* What a consumer observes: a renderer's render() call or an event handler.
\* seen is the Map object as it is at that moment.

RenderObs(layer, t) ==
    [kind |-> "render", id |-> layer, from |-> undefined, to |-> undefined, seen |-> t]

EventObs(type, from, to, t) ==
    [kind |-> "event", id |-> type, from |-> from, to |-> to, seen |-> t]

\* the outcome of a call: the Map object it leaves, how it ended ("zooming":
\* returned at the isZooming check; "same": returned at the === check;
\* "done": ran to its return; "threw": raised error), how many times
\* _calcMatrices was invoked, and what was observed, in order
Result(t, outcome, error, calcs, trace) ==
    [this |-> t, outcome |-> outcome, error |-> error, calcs |-> calcs, trace |-> trace]

---------------------------------------------------------------------------
\* The camera mixin

getFov(t) ==
    LET t1 == IF Falsy(t._fov) THEN [t EXCEPT !._fov = DEFAULT_FOV] ELSE t
    IN  [this |-> t1, value |-> DivRadian(t1._fov)]

\* getBearing without the sign flip
getBearing_noFlip(t) == IF Falsy(t._angle) THEN Zero ELSE DivRadian(t._angle)

getBearing(t) == IF Falsy(t._angle) THEN Zero ELSE DivRadian(Neg(t._angle))

getPitch(t) == IF Falsy(t._pitch) THEN Zero ELSE DivRadian(t._pitch)

getCameraMatrix(t) == t.cameraMatrix

\* _clearMatrices with the last delete forgotten
_clearMatrices_keepsCamera(t) ==
    [t EXCEPT !.projMatrix = Absent, !.pixelMatrix = Absent,
              !.pixelMatrixInverse = Absent]

_clearMatrices(t) ==
    [t EXCEPT !.projMatrix = Absent, !.pixelMatrix = Absent,
              !.pixelMatrixInverse = Absent, !.cameraMatrix = Absent]

\* _calcMatrices falling back to flat mode when the inversion fails
_calcMatrices_fallsBack(t) ==
    IF Falsy(Num(t.height, 0)) THEN [this |-> t, threw |-> FALSE]
    ELSE
    LET t1 == [t EXCEPT !._fov = IF Falsy(t._fov) THEN DEFAULT_FOV ELSE @,
                        !._pitch = IF Falsy(t._pitch) THEN Zero ELSE @,
                        !._angle = IF Falsy(t._angle) THEN Zero ELSE @]
    IN  IF Falsy(t1._pitch) /\ Falsy(t1._angle)
        THEN [this |-> _clearMatrices(t1), threw |-> FALSE]
        ELSE
        LET t2 == [t1 EXCEPT !.projMatrix = Matrix("projMatrix", t1),
                             !.pixelMatrix = Matrix("pixelMatrix", t1)]
            m  == invert(t2.pixelMatrix)
        IN  IF m = Absent
            THEN [this |-> _clearMatrices(t2), threw |-> FALSE]
            ELSE [this |-> [t2 EXCEPT !.pixelMatrixInverse = m,
                                      !.cameraMatrix = Matrix("cameraMatrix", t1)],
                  threw |-> FALSE]

\* _calcMatrices testing this.height only after the defaults and the flat case
_calcMatrices_heightLate(t) ==
    LET t1 == [t EXCEPT !._fov = IF Falsy(t._fov) THEN DEFAULT_FOV ELSE @,
                        !._pitch = IF Falsy(t._pitch) THEN Zero ELSE @,
                        !._angle = IF Falsy(t._angle) THEN Zero ELSE @]
    IN  IF Falsy(t1._pitch) /\ Falsy(t1._angle)
        THEN [this |-> _clearMatrices(t1), threw |-> FALSE]
        ELSE IF Falsy(Num(t.height, 0)) THEN [this |-> t1, threw |-> FALSE]
        ELSE
        LET t2 == [t1 EXCEPT !.projMatrix = Matrix("projMatrix", t1),
                             !.pixelMatrix = Matrix("pixelMatrix", t1)]
            m  == invert(t2.pixelMatrix)
        IN  IF m = Absent
            THEN [this |-> t2, threw |-> TRUE]
            ELSE [this |-> [t2 EXCEPT !.pixelMatrixInverse = m,
                                      !.cameraMatrix = Matrix("cameraMatrix", t1)],
                  threw |-> FALSE]

\* [this, threw]: threw is the 'failed to invert matrix' error
_calcMatrices(t) ==
    IF Falsy(Num(t.height, 0)) THEN [this |-> t, threw |-> FALSE]
    ELSE
    LET t1 == [t EXCEPT !._fov = IF Falsy(t._fov) THEN DEFAULT_FOV ELSE @,
                        !._pitch = IF Falsy(t._pitch) THEN Zero ELSE @,
                        !._angle = IF Falsy(t._angle) THEN Zero ELSE @]
    IN  IF Falsy(t1._pitch) /\ Falsy(t1._angle)
        THEN [this |-> _clearMatrices(t1), threw |-> FALSE]
        ELSE
        LET t2 == [t1 EXCEPT !.projMatrix = Matrix("projMatrix", t1),
                             !.pixelMatrix = Matrix("pixelMatrix", t1)]
            m  == invert(t2.pixelMatrix)
        IN  IF m = Absent
            THEN [this |-> t2, threw |-> TRUE]
            ELSE [this |-> [t2 EXCEPT !.pixelMatrixInverse = m,
                                      !.cameraMatrix = Matrix("cameraMatrix", t1)],
                  threw |-> FALSE]

\* const render = layer => { if (layer && layer._getRenderer()) ... render() }
render(layer, t) ==
    IF layer # NoLayer /\ layer \in renderers THEN <<RenderObs(layer, t)>> ELSE <<>>

\* _renderLayers rendering the base layer after the overlays
_renderLayers_baseLast(t) ==
    LET each[i \in 0..Len(layers)] ==
            IF i = 0 THEN <<>> ELSE each[i - 1] \o render(layers[i], t)
    IN  each[Len(layers)] \o render(baseLayer, t)

_renderLayers(t) ==
    LET each[i \in 0..Len(layers)] ==
            IF i = 0 THEN <<>> ELSE each[i - 1] \o render(layers[i], t)
    IN  render(baseLayer, t) \o each[Len(layers)]

\* the tail every setter shares: _calcMatrices(); _renderLayers(); _fireEvent(...)
\* t is the Map object with the new internal value stored
Recompute(t, type, from, to) ==
    LET c == _calcMatrices(t)
    IN  IF c.threw
        THEN Result(c.this, "threw", "failed to invert matrix", 1, <<>>)
        ELSE Result(c.this, "done", "", 1,
                    _renderLayers(c.this) \o <<EventObs(type, from, to, c.this)>>)

setFov(t, fov) ==
    IF zooming THEN Result(t, "zooming", "", 0, <<>>)
    ELSE
    LET f == ClampFov(fov)
    IN  IF t._fov = f THEN Result(t, "same", "", 0, <<>>)
        ELSE
        LET g  == getFov(t)
            t1 == [g.this EXCEPT !._fov = MulRadian(f)]
            c  == _calcMatrices(t1)
        IN  IF c.threw
            THEN Result(c.this, "threw", "failed to invert matrix", 1, <<>>)
            ELSE Result(c.this, "done", "", 1,
                        _renderLayers(c.this)
                        \o <<EventObs("fovchange", g.value, getFov(c.this).value, c.this)>>)

\* setBearing comparing the stored angle with the wrapped bearing in degrees
setBearing_comparesDegrees(t, bearing) ==
    IF ie9 THEN Result(t, "threw", "map can't rotate in IE9.", 0, <<>>)
    ELSE IF zooming THEN Result(t, "zooming", "", 0, <<>>)
    ELSE
    LET b == Neg(MulRadian(wrap(bearing, -180, 180)))
    IN  IF t._angle = wrap(bearing, -180, 180) THEN Result(t, "same", "", 0, <<>>)
        ELSE Recompute([t EXCEPT !._angle = b], "rotate", getBearing(t), b)

\* setBearing asking isZooming() before Browser.ie9
setBearing_zoomFirst(t, bearing) ==
    IF zooming THEN Result(t, "zooming", "", 0, <<>>)
    ELSE IF ie9 THEN Result(t, "threw", "map can't rotate in IE9.", 0, <<>>)
    ELSE
    LET b == Neg(MulRadian(wrap(bearing, -180, 180)))
    IN  IF t._angle = b THEN Result(t, "same", "", 0, <<>>)
        ELSE Recompute([t EXCEPT !._angle = b], "rotate", getBearing(t), b)

setBearing(t, bearing) ==
    IF ie9 THEN Result(t, "threw", "map can't rotate in IE9.", 0, <<>>)
    ELSE IF zooming THEN Result(t, "zooming", "", 0, <<>>)
    ELSE
    LET b == Neg(MulRadian(wrap(bearing, -180, 180)))
    IN  IF t._angle = b THEN Result(t, "same", "", 0, <<>>)
        ELSE Recompute([t EXCEPT !._angle = b], "rotate", getBearing(t), b)

\* setPitch without the isZooming() check
setPitch_ignoresZoom(t, pitch) ==
    IF ie9 THEN Result(t, "threw", "map can't tilt in IE9.", 0, <<>>)
    ELSE
    LET p == MulRadian(clamp(pitch, 0, 60))
    IN  IF t._pitch = p THEN Result(t, "same", "", 0, <<>>)
        ELSE Recompute([t EXCEPT !._pitch = p], "pitch", getPitch(t), p)

setPitch(t, pitch) ==
    IF ie9 THEN Result(t, "threw", "map can't tilt in IE9.", 0, <<>>)
    ELSE IF zooming THEN Result(t, "zooming", "", 0, <<>>)
    ELSE
    LET p == MulRadian(clamp(pitch, 0, 60))
    IN  IF t._pitch = p THEN Result(t, "same", "", 0, <<>>)
        ELSE Recompute([t EXCEPT !._pitch = p], "pitch", getPitch(t), p)

---------------------------------------------------------------------------
\* Exact arithmetic.  The point mappings are computed over the rationals
\* [n, d] (d > 0, lowest terms), for angles whose sine, cosine and tangent
\* are rational: 0, 90, -90 and 180 degrees, 36.8699 degrees (the angle of
\* the 3-4-5 triangle, 0.6435 radians: DEFAULT_FOV) and, for the fov,
\* 53.1301 degrees (tan of its half is 1/2).

Abs(x) == IF x < 0 THEN -x ELSE x

RECURSIVE GCD(_, _)
GCD(a, b) == IF b = 0 THEN a ELSE GCD(b, a % b)

\* n / d
Q(n, d) ==
    LET g == GCD(Abs(n), Abs(d))
    IN  IF d < 0 THEN [n |-> (-n) \div g, d |-> (-d) \div g]
        ELSE [n |-> n \div g, d |-> d \div g]

QInt(i) == [n |-> i, d |-> 1]

QAdd(a, b) ==
    LET g == GCD(a.d, b.d)
    IN  Q(a.n * (b.d \div g) + b.n * (a.d \div g), (a.d \div g) * b.d)

QNeg(a) == [n |-> -a.n, d |-> a.d]

QSub(a, b) == QAdd(a, QNeg(b))

QMul(a, b) ==
    LET g1 == GCD(Abs(a.n), b.d)
        g2 == GCD(Abs(b.n), a.d)
    IN  Q((a.n \div g1) * (b.n \div g2), (a.d \div g2) * (b.d \div g1))

QDiv(a, b) == QMul(a, Q(b.d, b.n))

\* the angle of the 3-4-5 triangle, in degrees, and the fov whose half has
\* tangent 1/2, in degrees
Pythagorean == Num(368699, 0)

WideFov == Num(531301, 0)

\* Math.sin(x) and Math.cos(x), x in radians
Sin(x) ==
    CASE Falsy(x) -> QInt(0)
      [] x = MulRadian(Degrees(90)) -> QInt(1)
      [] x = MulRadian(Degrees(-90)) -> QInt(-1)
      [] x = MulRadian(Degrees(180)) -> QInt(0)
      [] x = MulRadian(Degrees(-180)) -> QInt(0)
      [] x = MulRadian(Pythagorean) -> Q(3, 5)
      [] x = MulRadian(Neg(Pythagorean)) -> Q(-3, 5)

Cos(x) ==
    CASE Falsy(x) -> QInt(1)
      [] x = MulRadian(Degrees(90)) -> QInt(0)
      [] x = MulRadian(Degrees(-90)) -> QInt(0)
      [] x = MulRadian(Degrees(180)) -> QInt(-1)
      [] x = MulRadian(Degrees(-180)) -> QInt(-1)
      [] x = MulRadian(Pythagorean) -> Q(4, 5)
      [] x = MulRadian(Neg(Pythagorean)) -> Q(4, 5)

\* Math.tan(fov / 2)
TanHalf(fov) ==
    CASE fov = DEFAULT_FOV -> Q(1, 3)
      [] fov = MulRadian(WideFov) -> Q(1, 2)

---------------------------------------------------------------------------
\* mat4 (gl-matrix): a matrix is the sequence of its 16 entries, column after
\* column; entry i of the library's array is element i + 1 here.  A result
\* is written f \o <<>>: the sequence of the values of f.

\* the value of the last of the statements, which are evaluated in order: a
\* function of the library reads arrays that exist when it is called
Last(statements) == statements[Len(statements)]

create ==
    [k \in 1..16 |-> IF k \in {1, 6, 11, 16} THEN QInt(1) ELSE QInt(0)] \o <<>>

\* mat4.perspective(out, fovy, aspect, near, far), given tan(fovy / 2)
perspective(tanHalfFovy, aspect, near, far) ==
    LET f == QDiv(QInt(1), tanHalfFovy)
        nf == QDiv(QInt(1), QSub(near, far))
    IN  [k \in 1..16 |->
            CASE k = 1 -> QDiv(f, aspect)
              [] k = 6 -> f
              [] k = 11 -> QMul(QAdd(far, near), nf)
              [] k = 12 -> QInt(-1)
              [] k = 15 -> QMul(QMul(QMul(QInt(2), far), near), nf)
              [] OTHER -> QInt(0)] \o <<>>

\* mat4.scale(out, a, v)
scale(a, v) ==
    Last(<<a,
           [k \in 1..16 |->
               IF k <= 12 THEN QMul(a[k], v[((k - 1) \div 4) + 1]) ELSE a[k]] \o <<>>>>)

\* mat4.translate(out, a, v)
translate(a, v) ==
    Last(<<a,
           [k \in 1..16 |->
               IF k <= 12 THEN a[k]
               ELSE LET i == k - 12
                    IN  QAdd(QAdd(QMul(a[i], v[1]), QMul(a[4 + i], v[2])),
                             QAdd(QMul(a[8 + i], v[3]), a[12 + i]))] \o <<>>>>)

\* mat4.rotateX(out, a, rad)
rotateX(a, rad) ==
    LET s == Sin(rad)
        c == Cos(rad)
    IN  Last(<<a,
               [k \in 1..16 |->
                   IF k \in 5..8 THEN QAdd(QMul(a[k], c), QMul(a[k + 4], s))
                   ELSE IF k \in 9..12 THEN QSub(QMul(a[k], c), QMul(a[k - 4], s))
                   ELSE a[k]] \o <<>>>>)

\* mat4.rotateZ(out, a, rad)
rotateZ(a, rad) ==
    LET s == Sin(rad)
        c == Cos(rad)
    IN  Last(<<a,
               [k \in 1..16 |->
                   IF k \in 1..4 THEN QAdd(QMul(a[k], c), QMul(a[k + 4], s))
                   ELSE IF k \in 5..8 THEN QSub(QMul(a[k], c), QMul(a[k - 4], s))
                   ELSE a[k]] \o <<>>>>)

\* mat4.multiply(out, a, b)
multiply(a, b) ==
    Last(<<a, b,
           [k \in 1..16 |->
               LET col == (k - 1) \div 4
                   row == ((k - 1) % 4) + 1
               IN  QAdd(QAdd(QMul(b[4 * col + 1], a[row]), QMul(b[4 * col + 2], a[4 + row])),
                        QAdd(QMul(b[4 * col + 3], a[8 + row]),
                             QMul(b[4 * col + 4], a[12 + row])))] \o <<>>>>)

\* x * y - z * w
Det2(x, y, z, w) == QSub(QMul(x, y), QMul(z, w))

\* x * p - y * q + z * r
Sum3(x, p, y, q, z, r) == QAdd(QSub(QMul(x, p), QMul(y, q)), QMul(z, r))

\* mat4.invert(out, a) after b00 .. b11 are computed: Absent (null) when
\* the determinant is 0
invertWith(a, b00, b01, b02, b03, b04, b05, b06, b07, b08, b09, b10, b11) ==
    LET det == QAdd(Sum3(b00, b11, b01, b10, b02, b09),
                    Sum3(b03, b08, b04, b07, b05, b06))
        Entry(x, i) == QMul(x, i)
        Inverse(i) ==
            <<Entry(Sum3(a[6], b11, a[7], b10, a[8], b09), i),
              Entry(QNeg(Sum3(a[2], b11, a[3], b10, a[4], b09)), i),
              Entry(Sum3(a[14], b05, a[15], b04, a[16], b03), i),
              Entry(QNeg(Sum3(a[10], b05, a[11], b04, a[12], b03)), i),
              Entry(QNeg(Sum3(a[5], b11, a[7], b08, a[8], b07)), i),
              Entry(Sum3(a[1], b11, a[3], b08, a[4], b07), i),
              Entry(QNeg(Sum3(a[13], b05, a[15], b02, a[16], b01)), i),
              Entry(Sum3(a[9], b05, a[11], b02, a[12], b01), i),
              Entry(Sum3(a[5], b10, a[6], b08, a[8], b06), i),
              Entry(QNeg(Sum3(a[1], b10, a[2], b08, a[4], b06)), i),
              Entry(Sum3(a[13], b04, a[14], b02, a[16], b00), i),
              Entry(QNeg(Sum3(a[9], b04, a[10], b02, a[12], b00)), i),
              Entry(QNeg(Sum3(a[5], b09, a[6], b07, a[7], b06)), i),
              Entry(Sum3(a[1], b09, a[2], b07, a[3], b06), i),
              Entry(QNeg(Sum3(a[13], b03, a[14], b01, a[15], b00)), i),
              Entry(Sum3(a[9], b03, a[10], b01, a[11], b00), i)>>
    IN  IF Last(<<a, b00, b01, b02, b03, b04, b05, b06, b07, b08, b09, b10, b11,
                  det>>).n = 0
        THEN Absent
        ELSE Inverse(QDiv(QInt(1), det))

\* mat4.invert(out, a) on entries
invertMat4(a) ==
    invertWith(a,
               Det2(a[1], a[6], a[2], a[5]), Det2(a[1], a[7], a[3], a[5]),
               Det2(a[1], a[8], a[4], a[5]), Det2(a[2], a[7], a[3], a[6]),
               Det2(a[2], a[8], a[4], a[6]), Det2(a[3], a[8], a[4], a[7]),
               Det2(a[9], a[14], a[10], a[13]), Det2(a[9], a[15], a[11], a[13]),
               Det2(a[9], a[16], a[12], a[13]), Det2(a[10], a[15], a[11], a[14]),
               Det2(a[10], a[16], a[12], a[14]), Det2(a[11], a[16], a[12], a[15]))

\* mat4.transformMat4(out, a, m)
transformMat4(a, m) ==
    Last(<<m,
           [r \in 1..4 |->
               QAdd(QAdd(QMul(m[r], a[1]), QMul(m[4 + r], a[2])),
                    QAdd(QMul(m[8 + r], a[3]), QMul(m[12 + r], a[4])))] \o <<>>>>)

---------------------------------------------------------------------------
\* Points and zooms.  A point is [x, y]; a zoom argument is undefined or a
\* zoom level; the view is [center, zoom]: the projected centre and the
\* current zoom level.

Point(x, y) == [x |-> x, y |-> y]

Zoom(level) == Num(level * 10000, 0)

\* the resolutions of the zoom levels 0, 1, 2
Resolutions == <<4, 2, 1>>

getMaxZoom == Zoom(Len(Resolutions) - 1)

\* this._getResolution(zoom): of the current zoom when zoom is undefined
_getResolution(v, zoom) ==
    LET z == IF zoom.def THEN zoom ELSE v.zoom
    IN  QInt(Resolutions[(z.m \div 10000) + 1])

\* this._prjToPoint(pCoord, zoom): projected coordinate to 2d point (y grows
\* downwards) at the zoom
_prjToPoint(v, pCoord, zoom) ==
    Point(QDiv(pCoord.x, _getResolution(v, zoom)),
          QNeg(QDiv(pCoord.y, _getResolution(v, zoom))))

\* this._pointToPoint(point, zoom): 2d point at zoom to 2d point at the
\* current zoom
_pointToPoint(v, point, zoom) ==
    IF ~zoom.def THEN point
    ELSE LET k == QDiv(_getResolution(v, zoom), _getResolution(v, undefined))
         IN  Point(QMul(point.x, k), QMul(point.y, k))

\* this._pointToPointAtZoom(point, zoom): 2d point at the current zoom to 2d
\* point at zoom
_pointToPointAtZoom(v, point, zoom) ==
    IF ~zoom.def THEN point
    ELSE LET k == QDiv(_getResolution(v, undefined), _getResolution(v, zoom))
         IN  Point(QMul(point.x, k), QMul(point.y, k))

\* interpolate(a, b, t) = a * (1 - t) + b * t
interpolate(a, b, t) == QAdd(QMul(a, QSub(QInt(1), t)), QMul(b, t))

\* the entries of the running matrix of _calcMatrices before the translation
\* by the centre, for the inputs recorded in m.  With cameraToCenterDistance
\* d and h = fov / 2, topHalfSurfaceDistance = sin(h) * d / sin(PI -
\* groundAngle - h) = tan(h) * d / (cos(pitch) - sin(pitch) * tan(h)), and
\* cos(PI / 2 - pitch) = sin(pitch).
CameraEntries(m) ==
    LET cameraToCenterDistance ==
            QMul(QDiv(Q(1, 2), TanHalf(m.fov)), QInt(m.height))
        topHalfSurfaceDistance ==
            QDiv(QMul(TanHalf(m.fov), cameraToCenterDistance),
                 QSub(Cos(m.pitch), QMul(Sin(m.pitch), TanHalf(m.fov))))
        furthestDistance ==
            QAdd(QMul(Sin(m.pitch), topHalfSurfaceDistance), cameraToCenterDistance)
        farZ == QMul(furthestDistance, Q(101, 100))
        m1 == perspective(TanHalf(m.fov), Q(m.width, m.height), QInt(1), farZ)
        m2 == scale(m1, <<QInt(1), QInt(-1), QInt(1)>>)
        m3 == translate(m2, <<QInt(0), QInt(0), QNeg(cameraToCenterDistance)>>)
        m4 == rotateX(m3, m.pitch)
    IN  rotateZ(m4, m.angle)

\* projMatrix without the translation by the centre point
ProjEntries_noCenter(m, v) == CameraEntries(m)

\* the entries of this.projMatrix
ProjEntries(m, v) ==
    LET centerPoint == _prjToPoint(v, v.center, undefined)
    IN  translate(CameraEntries(m),
                  <<QNeg(centerPoint.x), QNeg(centerPoint.y), QInt(0)>>)

\* the entries of this.pixelMatrix
PixelEntries(m, v) ==
    LET s == scale(create, <<Q(m.width, 2), Q(-m.height, 2), QInt(1)>>)
    IN  multiply(translate(s, <<QInt(1), QInt(-1), QInt(0)>>), ProjEntries(m, v))

\* the entries of this.pixelMatrixInverse
PixelInverseEntries(m, v) == invertMat4(PixelEntries(m, v))

\* the point t / t[3] of the transformed [x, y, 0, 1]
Perspective(t) == Point(QDiv(t[1], t[4]), QDiv(t[2], t[4]))

\* the point at z = 0 on the line through the unprojected coord0 and coord1
Ground(coord0, coord1) ==
    LET w0 == coord0[4]
        w1 == coord1[4]
        x0 == QDiv(coord0[1], w0)
        x1 == QDiv(coord1[1], w1)
        y0 == QDiv(coord0[2], w0)
        y1 == QDiv(coord1[2], w1)
        z0 == QDiv(coord0[3], w0)
        z1 == QDiv(coord1[3], w1)
        tt == IF z0 = z1 THEN QInt(0)
              ELSE QDiv(QSub(QInt(0), z0), QSub(z1, z0))
        At(t) == Point(interpolate(x0, x1, t), interpolate(y0, y1, t))
    IN  Last(<<coord0, coord1, At(tt)>>)

\* _containerPointToPoint without a matrix
FlatPoint(t, v, p, zoom) ==
    LET centerPoint == _prjToPoint(v, v.center, zoom)
        k == IF zoom.def
             THEN QDiv(_getResolution(v, undefined), _getResolution(v, zoom))
             ELSE QInt(1)
    IN  Point(QAdd(centerPoint.x, QMul(k, QSub(p.x, Q(t.width, 2)))),
              QAdd(centerPoint.y, QMul(k, QSub(p.y, Q(t.height, 2)))))

\* _pointToContainerPoint without a matrix, of a point of the current zoom
FlatContainerPoint(t, v, point) ==
    LET centerPoint == _prjToPoint(v, v.center, undefined)
    IN  Point(QAdd(QSub(point.x, centerPoint.x), Q(t.width, 2)),
              QAdd(QSub(point.y, centerPoint.y), Q(t.height, 2)))

\* the 2d point cp of the current zoom as _containerPointToPoint returns it
Returned(v, cp, zoom) ==
    IF ~zoom.def THEN cp ELSE _pointToPointAtZoom(v, cp, zoom)

\* _containerPointToPoint taking the unprojected point of depth 0 for the
\* point on the ground
_containerPointToPoint_depth0(t, v, p, zoom) ==
    IF t.pixelMatrixInverse # Absent
    THEN Returned(v, Perspective(transformMat4(<<p.x, p.y, QInt(0), QInt(1)>>,
                                    PixelInverseEntries(t.pixelMatrixInverse, v))),
                  zoom)
    ELSE FlatPoint(t, v, p, zoom)

\* _pointToContainerPoint taking the point as one of the current zoom
_pointToContainerPoint_noZoom(t, v, point, zoom) ==
    IF t.pixelMatrix # Absent
    THEN Perspective(transformMat4(<<point.x, point.y, QInt(0), QInt(1)>>,
                                   PixelEntries(t.pixelMatrix, v)))
    ELSE FlatContainerPoint(t, v, point)

_pointToContainerPoint(t, v, point, zoom) ==
    LET pt == _pointToPoint(v, point, zoom)
    IN  IF t.pixelMatrix # Absent
        THEN Perspective(transformMat4(<<pt.x, pt.y, QInt(0), QInt(1)>>,
                                       PixelEntries(t.pixelMatrix, v)))
        ELSE FlatContainerPoint(t, v, pt)

\* both unprojections of _containerPointToPoint through the inverse
Unprojected(p, inverse) ==
    Ground(transformMat4(<<p.x, p.y, QInt(0), QInt(1)>>, inverse),
           transformMat4(<<p.x, p.y, QInt(1), QInt(1)>>, inverse))

_containerPointToPoint(t, v, p, zoom) ==
    IF t.pixelMatrixInverse # Absent
    THEN Returned(v, Unprojected(p, PixelInverseEntries(t.pixelMatrixInverse, v)), zoom)
    ELSE FlatPoint(t, v, p, zoom)

---------------------------------------------------------------------------
\* VectorLayer.  A geometry carries one property, count; a style is a
\* sequence of rules [filter, symbol] whose filter is a mapbox filter
\* expression on count: <<"==", v>>, <<"in", v, w>> or <<"all">>.  The layer
\* is [_style, _cookedStyles, geometries], geometries mapping every geometry
\* to [added, externSymbol]; null stands for null and for a deleted field.
\* A style is the record of its rules and a symbol the record of its
\* properties, so that either can be compared with null.

null == [kind |-> "null"]

Symbol(file) == [markerFile |-> file]

Style(rules) == [rules |-> rules]

\* the values of the count property, one per geometry
Counts == {100, 200, 300}

Rule(filter, symbol) == [filter |-> filter, symbol |-> symbol]

\* styles a layer is given: the example of setStyle's documentation, a style
\* with one rule, and one whose rules overlap
Styles ==
    {Style(<<Rule(<<"==", 100>>, Symbol("foo1.png")),
             Rule(<<"==", 200>>, Symbol("foo2.png"))>>),
     Style(<<Rule(<<"==", 200>>, Symbol("bar.png"))>>),
     Style(<<Rule(<<"in", 100, 200>>, Symbol("many.png")),
             Rule(<<"==", 200>>, Symbol("two.png"))>>),
     Style(<<Rule(<<"all">>, Symbol("any.png"))>>)}

\* core/mapbox compileStyle: every rule's filter expression becomes a
\* function of the feature
compileStyle(style) ==
    [cooked |->
        [i \in 1..Len(style.rules) |->
            LET f == style.rules[i].filter
            IN  [filter |-> [c \in Counts |->
                                CASE f[1] = "==" -> c = f[2]
                                  [] f[1] = "in" -> \E k \in 2..Len(f) : c = f[k]
                                  [] f[1] = "all" -> TRUE],
                 symbol |-> style.rules[i].symbol]]]

\* core/mapbox getFilterFeature: the feature a filter is applied to
getFilterFeature(geometry) == geometry

getStyle(l) == IF l._style = null THEN null ELSE l._style

\* geometry._setExternSymbol(symbol)
_setExternSymbol(l, geometry, symbol) ==
    [l EXCEPT !.geometries[geometry].externSymbol = symbol]

\* this.forEach(fn): fn applied to the layer's geometries, one after another
forEach(l, fn(_, _)) ==
    LET each[n \in 0..Cardinality(Counts)] ==
            IF n = 0 THEN l
            ELSE LET g == CHOOSE c \in Counts :
                              Cardinality({d \in Counts : d < c}) = n - 1
                 IN  IF each[n - 1].geometries[g].added THEN fn(each[n - 1], g)
                     ELSE each[n - 1]
    IN  each[Cardinality(Counts)]

\* the layer after _styleGeometry(geometry); its boolean result is not used
_styleGeometry(l, geometry) ==
    IF l._cookedStyles = null THEN l
    ELSE
    LET g == getFilterFeature(geometry)
        cooked == l._cookedStyles.cooked
        hits == {i \in 1..Len(cooked) : cooked[i].filter[g] = TRUE}
    IN  IF hits = {} THEN l
        ELSE LET i == CHOOSE h \in hits : \A k \in hits : h <= k
             IN  _setExternSymbol(l, geometry, cooked[i].symbol)

\* [this, fired]: the layer a call leaves and the events it fired
setStyle(l, style) ==
    LET l1 == [l EXCEPT !._style = style, !._cookedStyles = compileStyle(style)]
    IN  [this |-> forEach(l1, _styleGeometry), fired |-> <<"setstyle">>]

\* removeStyle leaving the geometries' extern symbols as they are
removeStyle_keepsSymbols(l) ==
    IF l._style = null THEN [this |-> l, fired |-> <<>>]
    ELSE [this |-> [l EXCEPT !._style = null, !._cookedStyles = null],
          fired |-> <<"removestyle">>]

removeStyle(l) ==
    IF l._style = null THEN [this |-> l, fired |-> <<>>]
    ELSE LET l1 == [l EXCEPT !._style = null, !._cookedStyles = null]
             reset(x, g) == _setExternSymbol(x, g, null)
         IN  [this |-> forEach(l1, reset), fired |-> <<"removestyle">>]

onAddGeometry(l, geo) ==
    IF getStyle(l) # null THEN _styleGeometry(l, geo) ELSE l

\* OverlayLayer.addGeometry(geo): the geometry, which has no extern symbol,
\* joins the layer, and onAddGeometry is called
addGeometry(l, geo) ==
    [this |-> onAddGeometry([l EXCEPT !.geometries[geo] =
                                        [added |-> TRUE, externSymbol |-> null]], geo),
     fired |-> <<>>]

---------------------------------------------------------------------------
\* Actions

NewVectorLayer ==
    [_style |-> null, _cookedStyles |-> null,
     geometries |-> [c \in Counts |-> [added |-> FALSE, externSymbol |-> null]]]

NoLayerCall == [op |-> "new", fired |-> <<>>]

\* the views a map is looked at with: projected centre and zoom level
Views ==
    {[center |-> Point(QInt(0), QInt(0)), zoom |-> Zoom(1)],
     [center |-> Point(QInt(6), QInt(4)), zoom |-> Zoom(1)]}

NoProbe == [op |-> "none", p |-> Point(QInt(0), QInt(0)), zoom |-> undefined,
            out |-> Point(QInt(0), QInt(0))]

NewMap(w, h) ==
    [_fov |-> undefined, _pitch |-> undefined, _angle |-> undefined,
     width |-> w, height |-> h,
     projMatrix |-> Absent, pixelMatrix |-> Absent,
     pixelMatrixInverse |-> Absent, cameraMatrix |-> Absent]

\* the events among the observations of a call
Events(trace) == SelectSeq(trace, LAMBDA o : o.kind = "event")

\* the render() calls among the observations of a call
Renders(trace) == SelectSeq(trace, LAMBDA o : o.kind = "render")

\* again: the call repeats the method and argument of the call just before
\* it; prevOutcome is how that call ended, prevCalcs and prevEvents count its
\* _calcMatrices invocations and its events
NoCall == [op |-> "new", arg |-> undefined, outcome |-> "done", error |-> "",
           calcs |-> 0, trace |-> <<>>,
           again |-> FALSE, prevOutcome |-> "", prevCalcs |-> 0, prevEvents |-> 0]

Init ==
    /\ \E v \in Viewports : map = NewMap(v[1], v[2])
    /\ ie9 \in BOOLEAN
    /\ zooming = FALSE
    /\ baseLayer \in {NoLayer, BaseId}
    /\ renderers = IF baseLayer = NoLayer
                   THEN {OverlayId(i) : i \in 2..NumOverlays}
                   ELSE {BaseId} \cup {OverlayId(i) : i \in 1..NumOverlays}
    /\ layers = [i \in 1..NumOverlays |-> OverlayId(i)]
    /\ last = NoCall
    /\ calcHeight = -1
    /\ vectorLayer = NewVectorLayer
    /\ layerLast = NoLayerCall
    /\ view = [center |-> Point(QInt(0), QInt(0)), zoom |-> Zoom(1)]
    /\ probe = NoProbe

\* a call of a Map method with outcome r
Call(op, arg, r) ==
    /\ map' = r.this
    /\ LET again == last.op = op /\ last.arg = arg
       IN  last' = [op |-> op, arg |-> arg, outcome |-> r.outcome, error |-> r.error,
                    calcs |-> r.calcs, trace |-> r.trace, again |-> again,
                    prevOutcome |-> IF again THEN last.outcome ELSE "",
                    prevCalcs |-> IF again THEN last.calcs ELSE 0,
                    prevEvents |-> IF again THEN Len(Events(last.trace)) ELSE 0]
    /\ calcHeight' = IF r.calcs > 0 THEN map.height ELSE calcHeight
    /\ UNCHANGED <<ie9, zooming, baseLayer, layers, renderers, layerVars, pointVars>>

SetFov == \E v \in FovInputs : Call("setFov", v, setFov(map, v))

SetBearing == \E v \in BearingInputs : Call("setBearing", v, setBearing(map, v))

SetPitch == \E v \in PitchInputs : Call("setPitch", v, setPitch(map, v))

GetFov == Call("getFov", undefined, Result(getFov(map).this, "done", "", 0, <<>>))

\* the zoom animation starts and ends
StartZoom ==
    /\ ~zooming
    /\ zooming' = TRUE
    /\ last' = [NoCall EXCEPT !.op = "zoomstart"]
    /\ UNCHANGED <<map, ie9, baseLayer, layers, renderers, calcHeight, layerVars, pointVars>>

EndZoom ==
    /\ zooming
    /\ zooming' = FALSE
    /\ last' = [NoCall EXCEPT !.op = "zoomend"]
    /\ UNCHANGED <<map, ie9, baseLayer, layers, renderers, calcHeight, layerVars, pointVars>>

\* the container is resized: the new size is stored and the matrices are
\* recomputed for it
Resize ==
    \E v \in Viewports :
        /\ v # <<map.width, map.height>>
        /\ LET c == _calcMatrices([map EXCEPT !.width = v[1], !.height = v[2]])
           IN  /\ map' = c.this
               /\ last' = [NoCall EXCEPT !.op = "resize",
                                         !.outcome = IF c.threw THEN "threw" ELSE "done",
                                         !.error = IF c.threw THEN "failed to invert matrix" ELSE "",
                                         !.calcs = 1]
        /\ calcHeight' = v[2]
        /\ UNCHANGED <<ie9, zooming, baseLayer, layers, renderers, layerVars, pointVars>>

Next == SetFov \/ SetBearing \/ SetPitch \/ GetFov \/ StartZoom \/ EndZoom \/ Resize

Spec == Init /\ [][Next]_vars

---------------------------------------------------------------------------
\* Vocabulary of the claims

\* pitch and bearing are both zero: getPitch() = 0 and getBearing() = 0
Flat(t) == Falsy(t._pitch) /\ Falsy(t._angle)

AllAbsent(t) ==
    /\ t.projMatrix = Absent
    /\ t.pixelMatrix = Absent
    /\ t.pixelMatrixInverse = Absent
    /\ t.cameraMatrix = Absent

\* the four matrices are the ones the current fov, pitch, bearing and
\* viewport give: none in flat mode, all four computed from them otherwise
\* (a viewport of no height has no matrices to compare with)
Coherent(t) ==
    t.height # 0 =>
        IF Flat(t) THEN AllAbsent(t)
        ELSE /\ t.projMatrix = Matrix("projMatrix", t)
             /\ t.pixelMatrix = Matrix("pixelMatrix", t)
             /\ t.pixelMatrixInverse = Matrix("pixelMatrixInverse", t)
             /\ t.cameraMatrix = Matrix("cameraMatrix", t)

\* the call just made is a setter that returned (did not raise)
SetterReturned == last.op \in Setters /\ last.outcome # "threw"

---------------------------------------------------------------------------
\* C1 (as stated): whenever a setter has returned and pitch and bearing are
\* both zero, all four derived matrices are absent.
C1_FlatHasNoMatrices ==
    (SetterReturned /\ Flat(map)) => AllAbsent(map)

\* C1 (amended): whenever pitch and bearing are both zero and the viewport
\* height was nonzero at the most recent matrix recomputation, all four derived
\* matrices are absent, so getCameraMatrix() returns null.
C1_FlatHasNoMatricesOnceSized ==
    (Flat(map) /\ calcHeight # 0) =>
        (AllAbsent(map) /\ getCameraMatrix(map) = Absent)

\* C1 witness: setBearing(0) has just taken a rotated view with a viewport
\* back to pitch = bearing = 0, and the matrices are gone.
C1_Witness ==
    /\ last.op = "setBearing" /\ last.arg = Degrees(0) /\ last.outcome = "done"
    /\ Events(last.trace)[1].from # Zero
    /\ Flat(map) /\ calcHeight # 0 /\ map.height # 0
    /\ getCameraMatrix(map) = Absent

\* C2 (as stated, for viewports that have a height): at every point where a
\* consumer can read them - each render() call and event handler of the call,
\* and the state the setter leaves, returned or raised - the four matrices are
\* the ones computed from the current fov, pitch, bearing and viewport.
C2_MatricesAlwaysCurrent ==
    last.op \in Setters =>
        /\ Coherent(map)
        /\ \A i \in 1..Len(last.trace) : Coherent(last.trace[i].seen)

\* C3: while a zoom animation is in progress a setter call leaves the camera
\* fields and matrices unchanged, renders nothing and fires nothing.
C3_ZoomingIsNoOp ==
    [][(zooming /\ last'.op \in Setters) =>
            /\ map' = map
            /\ last'.calcs = 0
            /\ last'.trace = <<>>]_vars

\* C3 witness: setPitch(90) was called during a zoom on a rotation-capable
\* backend and the pitch is still not 60.
C3_Witness ==
    /\ zooming /\ ~ie9
    /\ last.op = "setPitch" /\ last.arg = Degrees(90) /\ last.outcome = "zooming"
    /\ getPitch(map) # Degrees(60)

\* the internal value a setter would store for its argument, the internal
\* value the Map object holds, and the public value the matching getter returns
NewInternal(op, arg) ==
    CASE op = "setFov" -> MulRadian(ClampFov(arg))
      [] op = "setBearing" -> Neg(MulRadian(wrap(arg, -180, 180)))
      [] op = "setPitch" -> MulRadian(clamp(arg, 0, 60))

Internal(op, t) ==
    CASE op = "setFov" -> t._fov
      [] op = "setBearing" -> t._angle
      [] op = "setPitch" -> t._pitch

Getter(op, t) ==
    CASE op = "setFov" -> getFov(t).value
      [] op = "setBearing" -> getBearing(t)
      [] op = "setPitch" -> getPitch(t)

\* C4 (as stated): a setter called (no zoom in progress, backend able to
\* rotate) with an argument whose internal value equals the stored one returns
\* at once: nothing changes, nothing is recomputed, rendered or fired.
C4_EqualValueShortCircuits ==
    [][(/\ last'.op \in Setters
        /\ ~zooming
        /\ (last'.op = "setFov" \/ ~ie9)
        /\ NewInternal(last'.op, last'.arg) = Internal(last'.op, map)) =>
            /\ last'.outcome = "same"
            /\ last'.calcs = 0
            /\ last'.trace = <<>>
            /\ map' = map]_vars

\* C5 (as stated): with no zoom in progress and a backend able to rotate, two
\* setBearing(b) calls in a row trigger exactly one recomputation and exactly
\* one notification in total.
C5_TwiceIsExactlyOnce ==
    (last.op = "setBearing" /\ last.again /\ ~zooming /\ ~ie9) =>
        /\ last.prevCalcs + last.calcs = 1
        /\ last.prevEvents + Len(Events(last.trace)) = 1

\* C5 (amended): the second of two setBearing(b) calls in a row is a no-op, so
\* the two trigger at most one recomputation and one notification in total:
\* exactly one of each when the first call ran to its end, none when the first
\* call was itself short-circuited, and one recomputation without notification
\* when the first call's recomputation raised.
C5_SecondCallIsNoOp ==
    (last.op = "setBearing" /\ last.again /\ ~zooming /\ ~ie9) =>
        /\ last.outcome = "same"
        /\ last.calcs = 0
        /\ last.trace = <<>>
        /\ last.prevOutcome \in {"done", "same", "threw"}
        /\ last.prevOutcome = "done" => (last.prevCalcs = 1 /\ last.prevEvents = 1)
        /\ last.prevOutcome = "same" => (last.prevCalcs = 0 /\ last.prevEvents = 0)
        /\ last.prevOutcome = "threw" => (last.prevCalcs = 1 /\ last.prevEvents = 0)

\* C5 witness: setBearing(270) twice in a row; the first call rotated the map
\* and fired, the second did nothing.
C5_Witness ==
    /\ last.op = "setBearing" /\ last.arg = Degrees(270) /\ last.again
    /\ ~zooming /\ ~ie9
    /\ last.prevOutcome = "done" /\ last.prevCalcs = 1 /\ last.prevEvents = 1
    /\ last.outcome = "same"
    /\ getBearing(map) = Degrees(-90)

\* C6 (as stated): the notification of a genuine change carries from = what
\* the matching getter returned before the call and to = what it returns after.
C6_EventCarriesGetterValues ==
    [][(last'.op \in Setters /\ last'.outcome = "done") =>
            LET e == Events(last'.trace)
            IN  /\ Len(e) = 1
                /\ e[1].from = Getter(last'.op, map)
                /\ e[1].to = Getter(last'.op, map')]_vars

C8_Ie9Raises ==
    [][(ie9 /\ last'.op \in {"setBearing", "setPitch"}) =>
            /\ last'.outcome = "threw"
            /\ last'.error \in {"map can't rotate in IE9.", "map can't tilt in IE9."}
            /\ map' = map
            /\ last'.calcs = 0
            /\ last'.trace = <<>>]_vars

\* C8 witness: setBearing raised on ie9 during a zoom.
C8_Witness ==
    /\ ie9 /\ zooming
    /\ last.op = "setBearing" /\ last.outcome = "threw"

\* the recomputation a setter ran had a pixel matrix that cannot be inverted
InversionFailed ==
    /\ last.op \in Setters /\ last.calcs = 1
    /\ map.height # 0 /\ ~Flat(map)
    /\ invert(Matrix("pixelMatrix", map)) = Absent

\* C9: when the inversion fails the setter raises 'failed to invert matrix';
\* no layer is rendered and no event fired, neither in flat mode nor with an
\* earlier inverse.
C9_InversionFailureRaises ==
    InversionFailed =>
        /\ last.outcome = "threw"
        /\ last.error = "failed to invert matrix"
        /\ last.trace = <<>>
        /\ map.pixelMatrix = Matrix("pixelMatrix", map)

\* C9 witness: setPitch raised the inversion error.
C9_Witness ==
    /\ InversionFailed
    /\ last.op = "setPitch" /\ last.outcome = "threw"
    /\ last.error = "failed to invert matrix"

\* x is a plain number (in degrees) between lo and hi ten-thousandths; the
\* default fov, DEFAULT_FOV / RADIAN = 36.87 degrees, is named apart
InRange(x, lo, hi) == x.def /\ x.e = 0 /\ x.m >= lo /\ x.m <= hi

\* C10 (as stated): with no zoom in progress, after setPitch(v) returns
\* getPitch() is v clamped to [0, 60], after setFov(v) returns getFov() is v
\* clamped to [0.01, 60], and pitch and fov always lie in those ranges.
C10_GettersReturnClampedArgument ==
    /\ (SetterReturned /\ ~zooming /\ last.op = "setPitch") =>
            getPitch(map) = clamp(last.arg, 0, 60)
    /\ (SetterReturned /\ ~zooming /\ last.op = "setFov") =>
            getFov(map).value = ClampFov(last.arg)
    /\ InRange(getPitch(map), 0, 600000)
    /\ \/ InRange(getFov(map).value, 100, 600000)
       \/ getFov(map).value = DivRadian(DEFAULT_FOV)

---------------------------------------------------------------------------
\* Bearings of any size: the view is only rotated (and zoomed), with arguments
\* below, inside, on the ends of and above the range -180..180

BearingArgs ==
    {Degrees(-540), Degrees(-180), Degrees(-90), Degrees(0), Num(905000, 0),
     Degrees(180), Degrees(270), Degrees(720)}

InitBearing ==
    /\ Init
    /\ map.height # 0
    /\ baseLayer = NoLayer

RotateTo == \E v \in BearingArgs : Call("setBearing", v, setBearing(map, v))

NextBearing == RotateTo \/ StartZoom \/ EndZoom

SpecBearing == InitBearing /\ [][NextBearing]_vars

\* C11: with no zoom in progress and a backend able to rotate, after
\* setBearing(b) getBearing() returns a plain number of degrees that lies in
\* [-180, 180] and differs from b by a whole number of turns (b wrapped).
C11_GetBearingIsWrappedArgument ==
    (last.op = "setBearing" /\ ~zooming /\ ~ie9) =>
        LET g == getBearing(map)
        IN  /\ g.def /\ g.e = 0
            /\ g.m >= -1800000 /\ g.m <= 1800000
            /\ (g.m - last.arg.m) % 3600000 = 0

\* C11 witness: setBearing(270) on a backend able to rotate, no zoom in
\* progress; getBearing() is -90.
C11_Witness ==
    /\ last.op = "setBearing" /\ last.arg = Degrees(270)
    /\ ~zooming /\ ~ie9
    /\ last.outcome = "done"
    /\ getBearing(map) = Degrees(-90)

---------------------------------------------------------------------------
\* C15: a recomputation that finds the viewport height unset or zero does
\* nothing: the four matrices are neither created, replaced nor cleared, and
\* fov, pitch and bearing stay as they are (unset included), apart from the
\* one value the calling setter has just stored; nothing is raised.
C15_NoHeightNoRecomputation ==
    [][(last'.calcs = 1 /\ map'.height = 0) =>
            /\ map'.projMatrix = map.projMatrix
            /\ map'.pixelMatrix = map.pixelMatrix
            /\ map'.pixelMatrixInverse = map.pixelMatrixInverse
            /\ map'.cameraMatrix = map.cameraMatrix
            /\ last'.op # "setFov" => map'._fov = map._fov
            /\ last'.op # "setPitch" => map'._pitch = map._pitch
            /\ last'.op # "setBearing" => map'._angle = map._angle
            /\ last'.op \in Setters =>
                    Internal(last'.op, map') = NewInternal(last'.op, last'.arg)
            /\ last'.outcome = "done"]_vars

\* C15 witness: setPitch(30) in a viewport of no height: the pitch is stored,
\* no matrix was created and fov and bearing are still unset.
C15_Witness ==
    /\ last.op = "setPitch" /\ last.calcs = 1 /\ last.outcome = "done"
    /\ map.height = 0
    /\ getPitch(map) = Degrees(30)
    /\ AllAbsent(map)
    /\ ~map._fov.def /\ ~map._angle.def

---------------------------------------------------------------------------
AllPresent(t) ==
    /\ t.projMatrix # Absent
    /\ t.pixelMatrix # Absent
    /\ t.pixelMatrixInverse # Absent
    /\ t.cameraMatrix # Absent

\* C16 (as stated): in the state a setter leaves, returned or raised, the four
\* derived matrices are all present or all absent, so the tests of
\* pixelMatrix, of pixelMatrixInverse and of getCameraMatrix() agree.
C16_MatricesAllOrNone ==
    last.op \in Setters =>
        /\ AllPresent(map) \/ AllAbsent(map)
        /\ (map.pixelMatrix # Absent) = (map.pixelMatrixInverse # Absent)
        /\ (map.pixelMatrix # Absent) = (getCameraMatrix(map) # Absent)

---------------------------------------------------------------------------
\* C17 (as stated): a setter call fires its change event only if the value
\* the matching getter returns after the call differs from the value it
\* returned before.
C17_EventOnlyOnChange ==
    [][(last'.op \in Setters /\ Len(Events(last'.trace)) > 0) =>
            Getter(last'.op, map') # Getter(last'.op, map)]_vars

---------------------------------------------------------------------------
\* The VectorLayer alone: styles are set and removed and geometries added

LayerCall(op, r) ==
    /\ vectorLayer' = r.this
    /\ layerLast' = [op |-> op, fired |-> r.fired]
    /\ UNCHANGED <<map, ie9, zooming, baseLayer, layers, renderers, last, calcHeight,
                   pointVars>>

SetStyle == \E style \in Styles : LayerCall("setStyle", setStyle(vectorLayer, style))

RemoveStyle == LayerCall("removeStyle", removeStyle(vectorLayer))

AddGeometry ==
    \E g \in Counts :
        /\ ~vectorLayer.geometries[g].added
        /\ LayerCall("addGeometry", addGeometry(vectorLayer, g))

InitLayer ==
    /\ Init
    /\ map.height # 0 /\ map.width # 0
    /\ ~ie9
    /\ baseLayer = NoLayer

NextLayer == SetStyle \/ RemoveStyle \/ AddGeometry

SpecLayer == InitLayer /\ [][NextLayer]_vars

\* the symbol the layer's style gives a geometry: that of the first rule, in
\* order, whose filter the geometry satisfies; null without style or match
Satisfies(count, filter) ==
    \/ filter[1] = "all"
    \/ filter[1] \in {"==", "in"} /\ \E k \in 2..Len(filter) : filter[k] = count

StyleSymbol(l, g) ==
    IF getStyle(l) = null THEN null
    ELSE LET rules == getStyle(l).rules
             hits == {i \in 1..Len(rules) : Satisfies(g, rules[i].filter)}
         IN  IF hits = {} THEN null
             ELSE rules[CHOOSE h \in hits : \A k \in hits : h <= k].symbol

\* C18 (as stated): every geometry on the layer carries, as its extern
\* symbol, the symbol of the first rule of the current style that it
\* satisfies, and none when the layer has no style or no rule matches.
C18_ExternSymbolFollowsStyle ==
    \A g \in Counts :
        vectorLayer.geometries[g].added =>
            vectorLayer.geometries[g].externSymbol = StyleSymbol(vectorLayer, g)

\* C19: removeStyle on a layer that has a style leaves it without style
\* (getStyle() is null), resets the extern symbol of every geometry on the
\* layer and fires 'removestyle' once; on a layer without style it changes
\* nothing and fires nothing, and so does a second removeStyle in a row.
C19_RemoveStyle ==
    [][/\ layerLast'.op = "removeStyle" =>
            IF getStyle(vectorLayer) # null
            THEN /\ getStyle(vectorLayer') = null
                 /\ \A g \in Counts :
                        /\ vectorLayer'.geometries[g].added = vectorLayer.geometries[g].added
                        /\ vectorLayer.geometries[g].added =>
                                vectorLayer'.geometries[g].externSymbol = null
                 /\ layerLast'.fired = <<"removestyle">>
            ELSE /\ vectorLayer' = vectorLayer
                 /\ layerLast'.fired = <<>>
       /\ (layerLast.op = "removeStyle" /\ layerLast'.op = "removeStyle") =>
            /\ vectorLayer' = vectorLayer
            /\ layerLast'.fired = <<>>]_vars

\* C19 witness: removeStyle has just taken the style from a layer whose
\* geometry had been given a symbol by it, and fired 'removestyle'.
C19_Witness ==
    /\ layerLast.op = "removeStyle" /\ layerLast.fired = <<"removestyle">>
    /\ getStyle(vectorLayer) = null
    /\ \E g \in Counts : vectorLayer.geometries[g].added
    /\ \A g \in Counts : vectorLayer.geometries[g].externSymbol = null

---------------------------------------------------------------------------
\* The point mappings: a map is configured (fov, pitch, bearing, centre) in a
\* small viewport, points are mapped forth and back, and the container is
\* hidden and shown again

PointViewports == {<<8, 6>>, <<0, 0>>}

\* setFov is called with WideFov or not at all (undefined)
PointFovs == {undefined, WideFov}

PointPitches == {Degrees(0), Pythagorean}

PointBearings == {Degrees(0), Degrees(270), Pythagorean}

\* container points: inside the viewport, its corner, and outside
Pixels ==
    {Point(QInt(1), QInt(1)), Point(QInt(4), QInt(3)), Point(QInt(7), QInt(5)),
     Point(Q(5, 2), QInt(5)), Point(QInt(0), QInt(0)), Point(QInt(9), QInt(-1))}

ZoomArgs == {undefined, Zoom(0), Zoom(2)}

\* the 2d point of the map centre at the current zoom
CenterPoint == _prjToPoint(view, view.center, undefined)

\* 2d points: the centre and points around it
MapPoints ==
    {CenterPoint, Point(QInt(0), QInt(0)), Point(QInt(5), QInt(1)),
     Point(Q(-7, 2), QInt(2))}

InitPoints ==
    /\ ie9 = FALSE
    /\ zooming = FALSE
    /\ baseLayer = NoLayer
    /\ renderers = {OverlayId(i) : i \in 2..NumOverlays}
    /\ layers = [i \in 1..NumOverlays |-> OverlayId(i)]
    /\ last = NoCall
    /\ vectorLayer = NewVectorLayer
    /\ layerLast = NoLayerCall
    /\ view \in Views
    /\ probe = NoProbe
    /\ \E v \in PointViewports, f \in PointFovs, p \in PointPitches, b \in PointBearings :
            LET t0 == NewMap(v[1], v[2])
                t1 == IF f.def THEN setFov(t0, f).this ELSE t0
                t2 == setPitch(t1, p).this
            IN  /\ map = setBearing(t2, b).this
                /\ calcHeight = v[2]

\* the container is hidden or shown: the size is stored and the matrices
\* are recomputed for it
Relayout ==
    \E v \in PointViewports :
        /\ v # <<map.width, map.height>>
        /\ LET c == _calcMatrices([map EXCEPT !.width = v[1], !.height = v[2]])
           IN  /\ map' = c.this
               /\ last' = [NoCall EXCEPT !.op = "resize",
                                         !.outcome = IF c.threw THEN "threw" ELSE "done",
                                         !.error = IF c.threw THEN "failed to invert matrix" ELSE "",
                                         !.calcs = 1]
        /\ calcHeight' = v[2]
        /\ probe' = NoProbe
        /\ UNCHANGED <<ie9, zooming, baseLayer, layers, renderers, layerVars, view>>

ContainerPointToPoint ==
    \E p \in Pixels, z \in ZoomArgs :
        /\ probe' = [op |-> "_containerPointToPoint", p |-> p, zoom |-> z,
                     out |-> _containerPointToPoint(map, view, p, z)]
        /\ UNCHANGED <<map, ie9, zooming, baseLayer, layers, renderers, last,
                       calcHeight, layerVars, view>>

PointToContainerPoint ==
    \E q \in MapPoints, z \in ZoomArgs :
        /\ probe' = [op |-> "_pointToContainerPoint", p |-> q, zoom |-> z,
                     out |-> _pointToContainerPoint(map, view, q, z)]
        /\ UNCHANGED <<map, ie9, zooming, baseLayer, layers, renderers, last,
                       calcHeight, layerVars, view>>

NextPoints == ContainerPointToPoint \/ PointToContainerPoint \/ Relayout

SpecPoints == InitPoints /\ [][NextPoints]_vars

\* p lies strictly inside the viewport of t
StrictlyInside(p, t) ==
    /\ p.x.n > 0 /\ p.x.n < t.width * p.x.d
    /\ p.y.n > 0 /\ p.y.n < t.height * p.y.d

\* C12: in perspective mode (pitch and bearing not both zero), for a
\* container point p strictly inside the viewport,
\* _pointToContainerPoint(_containerPointToPoint(p)) = p exactly.
C12_PerspectiveRoundTrip ==
    (/\ probe.op = "_containerPointToPoint" /\ ~probe.zoom.def
     /\ ~Flat(map)
     /\ StrictlyInside(probe.p, map)) =>
        _pointToContainerPoint(map, view, probe.out, undefined) = probe.p

\* C12 witness: a container point off the centre was mapped back through
\* the inverse pixel matrix of a tilted and rotated view; it is not the point
\* the flat formula gives, and mapping it forward gives the container point.
C12_Witness ==
    /\ probe.op = "_containerPointToPoint" /\ ~probe.zoom.def
    /\ probe.p = Point(QInt(7), QInt(5))
    /\ getPitch(map) = Pythagorean /\ getBearing(map) = Degrees(-90)
    /\ map.pixelMatrixInverse # Absent
    /\ probe.out # Point(QAdd(CenterPoint.x, QInt(3)), QAdd(CenterPoint.y, QInt(2)))
    /\ _pointToContainerPoint(map, view, probe.out, undefined) = probe.p


\* C13: in flat mode (no derived matrices) the two point mappings are exact
\* inverses for every container point p, map centre and optional target
\* zoom z: _pointToContainerPoint(_containerPointToPoint(p, z), z) = p and
\* _containerPointToPoint(_pointToContainerPoint(q, z), z) = q.
C13_FlatMappingsAreInverses ==
    AllAbsent(map) =>
        /\ probe.op = "_containerPointToPoint" =>
                _pointToContainerPoint(map, view, probe.out, probe.zoom) = probe.p
        /\ probe.op = "_pointToContainerPoint" =>
                _containerPointToPoint(map, view, probe.out, probe.zoom) = probe.p

\* C13 witness: without matrices, a 2d point given at zoom 2 was mapped to the
\* container of a map at zoom 1 whose centre is not the origin; the result
\* differs from the one for the same point at the current zoom, and the
\* backward mapping to zoom 2 gives the point.
C13_Witness ==
    /\ AllAbsent(map) /\ map.width = 8 /\ map.height = 6
    /\ view.center # Point(QInt(0), QInt(0))
    /\ probe.op = "_pointToContainerPoint" /\ probe.zoom = Zoom(2)
    /\ probe.p = Point(QInt(5), QInt(1))
    /\ probe.out # _pointToContainerPoint(map, view, probe.p, undefined)
    /\ _containerPointToPoint(map, view, probe.out, probe.zoom) = probe.p


\* the centre of the viewport of t
ViewportCenter(t) == Point(Q(t.width, 2), Q(t.height, 2))

\* C14 as stated: in every camera state, flat or perspective, for any pitch,
\* bearing and fov, forward-projecting the current map centre point yields
\* the viewport centre (width / 2, height / 2).
C14_CenterMapsToViewportCenter ==
    _pointToContainerPoint(map, view, CenterPoint, undefined) = ViewportCenter(map)

\* C14 amended: in every camera state whose viewport has a nonzero width and
\* height, forward-projecting the current map centre point yields the
\* viewport centre.
C14_CenterMapsToViewportCenterOnceSized ==
    (map.width # 0 /\ map.height # 0) =>
        _pointToContainerPoint(map, view, CenterPoint, undefined) = ViewportCenter(map)

\* C14 witness: the centre point of a view centred off the origin, tilted
\* and rotated, with the wide fov, was forward-projected through the pixel
\* matrix to (4, 3) in the 8x6 viewport.
C14_Witness ==
    /\ probe.op = "_pointToContainerPoint" /\ ~probe.zoom.def
    /\ probe.p = CenterPoint /\ CenterPoint # Point(QInt(0), QInt(0))
    /\ getPitch(map) = Pythagorean /\ getBearing(map) = Pythagorean
    /\ map._fov = MulRadian(WideFov)
    /\ map.pixelMatrix # Absent /\ map.width = 8 /\ map.height = 6
    /\ probe.out = Point(QInt(4), QInt(3))


---------------------------------------------------------------------------
\* PointSymbolizer._getRotationAt.  An angle returned by Math.atan2 is
\* written as the direction it belongs to: the vector (dx, dy) scaled to
\* |dx| + |dy| = 1, and (1, 0), the direction of angle 0, for the zero vector.
\* A rotation is the record of its numeric part and of the angle added to it.

QAbs(a) == IF a.n < 0 THEN QNeg(a) ELSE a

NoAngle == <<>>

\* computeDegree(p1, p2) = Math.atan2(p2.y - p1.y, p2.x - p1.x)
computeDegree(p1, p2) ==
    LET dx == QSub(p2.x, p1.x)
        dy == QSub(p2.y, p1.y)
        norm == QAdd(QAbs(dx), QAbs(dy))
    IN  IF norm.n = 0 THEN <<QInt(1), QInt(0)>>
        ELSE <<QDiv(dx, norm), QDiv(dy, norm)>>

Rotation(r, angle) == [r |-> r, angle |-> angle]

\* no reference-point pairs: this._getRenderPoints()[1] is undefined
NoRotations == <<>>

\* _getRotationAt taking the reference points as they are in every mode
_getRotationAt_neverProjects(t, v, r, rotations, i) ==
    IF rotations = NoRotations THEN Rotation(r, NoAngle)
    ELSE Rotation(IF Falsy(r) THEN Zero ELSE r,
                  computeDegree(rotations[i][1], rotations[i][2]))

\* symbolizer._getRotationAt(i) on the map t with the view v, where
\* getRotation() gives r and _getRenderPoints()[1] gives rotations
_getRotationAt(t, v, r, rotations, i) ==
    IF rotations = NoRotations THEN Rotation(r, NoAngle)
    ELSE LET r1 == IF Falsy(r) THEN Zero ELSE r
             projected == getCameraMatrix(t) # Absent
             maxZoom == getMaxZoom
             p0 == IF projected
                   THEN _pointToContainerPoint(t, v, rotations[i][1], maxZoom)
                   ELSE rotations[i][1]
             p1 == IF projected
                   THEN _pointToContainerPoint(t, v, rotations[i][2], maxZoom)
                   ELSE rotations[i][2]
         IN  Last(<<p0, p1, Rotation(r1, computeDegree(p0, p1))>>)

\* the configured rotation of the symbol: none, 0, a quarter turn in radians
BaseRotations == {undefined, Zero, Num(15708, 0)}

\* reference-point pairs at the maximum zoom, one list per feature shape
RotationPairs ==
    {NoRotations,
     <<<<Point(QInt(0), QInt(0)), Point(QInt(4), QInt(0))>>,
       <<Point(QInt(2), QInt(-2)), Point(QInt(6), QInt(4))>>>>,
     <<<<Point(QInt(12), QInt(-8)), Point(QInt(12), QInt(-8))>>,
       <<Point(QInt(14), QInt(-6)), Point(QInt(10), QInt(-11))>>>>}

GetRotationAt ==
    \E r \in BaseRotations, rotations \in RotationPairs, i \in 1..2 :
        /\ probe' = [op |-> "_getRotationAt",
                     p |-> [r |-> r, rotations |-> rotations, i |-> i],
                     zoom |-> undefined,
                     out |-> _getRotationAt(map, view, r, rotations, i)]
        /\ UNCHANGED <<map, ie9, zooming, baseLayer, layers, renderers, last,
                       calcHeight, layerVars, view>>

NextRotation == GetRotationAt \/ Relayout

SpecRotation == InitPoints /\ [][NextRotation]_vars

\* the reference point pt of the maximum zoom forward-projected to the
\* container
Projected(pt) == _pointToContainerPoint(map, view, pt, getMaxZoom)

\* C20: the per-point rotation is the configured base rotation alone when the
\* feature has no reference-point pairs; otherwise it is the base rotation (0
\* if unset) plus the direction angle between the two reference points, which
\* are forward-projected to container points first exactly when a camera
\* matrix is active, and taken unprojected otherwise.
C20_RotationAt ==
    probe.op = "_getRotationAt" =>
        LET r == probe.p.r
            pair == probe.p.rotations[probe.p.i]
            base == IF r.def THEN r ELSE Zero
        IN  IF probe.p.rotations = NoRotations
            THEN probe.out = Rotation(r, NoAngle)
            ELSE /\ probe.out.r = base
                 /\ getCameraMatrix(map) # Absent =>
                        probe.out.angle = computeDegree(Projected(pair[1]), Projected(pair[2]))
                 /\ getCameraMatrix(map) = Absent =>
                        probe.out.angle = computeDegree(pair[1], pair[2])

\* C20 witness: with a camera matrix active and no base rotation configured,
\* the rotation at a pair of distinct reference points is 0 plus the
\* direction between their container points, which is not the direction
\* between the unprojected points.
C20_Witness ==
    /\ probe.op = "_getRotationAt"
    /\ probe.p.rotations # NoRotations /\ ~probe.p.r.def /\ probe.p.i = 2
    /\ getCameraMatrix(map) # Absent /\ map.width = 8 /\ map.height = 6
    /\ probe.out.r = Zero
    /\ probe.out.angle =
            computeDegree(Projected(probe.p.rotations[2][1]),
                          Projected(probe.p.rotations[2][2]))
    /\ probe.out.angle #
            computeDegree(probe.p.rotations[2][1], probe.p.rotations[2][2])

=============================================================================
